---- MODULE Spec2Model ----
(***************************************************************************)
(* A model of ASMDefinition (src/src/asm_definition.rs): the scanner that  *)
(* turns source text into a flat token sequence and a label table, the     *)
(* run loop that dispatches the tokens to host callbacks, and the jump     *)
(* entry points the callbacks use.                                         *)
(*                                                                         *)
(* Text is a sequence of one-character strings.  A usize is represented by *)
(* its signed residue modulo 2^64: every n >= 0 stands for itself and -k   *)
(* stands for 2^64 - k, so usize::MAX is -1.  Addition and subtraction of  *)
(* one are exact on this representation, and "c < len" on usize values is  *)
(* "0 <= c /\ c < len" on representatives (a negative one is huge).        *)
(***************************************************************************)
EXTENDS Integers, Sequences, FiniteSets, TLC

VARIABLES
    def,                 \* the ASMDefinition: registers, instructions, labels,
                         \* errors, halted, current_line; stdout is the sink of println!
    build,               \* "debug" (overflow checks: panic) or "release" (wrap)
    code,                \* the source text the host passes to scan / interpret
    host,                \* the host's remaining calls: "scan", "interpret", "run"
    pc,                  \* "host", "scan", "scanned" (scan returned inside interpret),
                         \* "run", "panic" (the process has aborted)
    entry,               \* the public entry the host is inside of
    lines, line_no,      \* scan: the split lines and the for loop's position
    output,              \* scan: the token vector being built
    ast,                 \* the token vector the last scan returned
    token_stream,        \* run: its argument
    current_instruction, \* run: Option<ASMInstruction>
    current_args,        \* run: Vec<ASMValue>
    steps,               \* number of loop iterations taken so far (capped)
    invoked,             \* history: the callbacks invoked, in order, each with its
                         \* arguments, the cursor at its terminator (at) and the
                         \* cursor it returned with (landed)
    scans                \* history: what each completed scan returned and left in labels

vars == <<def, build, code, host, pc, entry, lines, line_no, output, ast,
          token_stream, current_instruction, current_args, steps, invoked, scans>>

-----------------------------------------------------------------------------
(* Bounds of the model *)

MaxLines == 2
MaxSteps == 14

(* Program constants *)

\* i32::MAX, the largest value word.parse::<i32>() accepts
I32Max == 2147483647
\* usize::MAX as a signed residue modulo 2^64 (what 0usize - 1 wraps to)
UsizeMax == -1

-----------------------------------------------------------------------------
(* Characters *)

\* the digits, and the letters the texts of this model are written with
Digits == {"0", "1", "2", "3", "4", "5", "6", "7", "8", "9"}
Letters == {"A", "D", "E", "F", "J", "M", "O", "P", "S", "T", "V",
            "a", "b", "e", "l", "q", "r", "x"}

is_whitespace(c) == c \in {" ", "\t", "\n", "\r"}
is_numeric(c) == c \in Digits
is_alphanumeric(c) == c \in Digits \cup Letters

DigitValue(c) ==
    CASE c = "0" -> 0 [] c = "1" -> 1 [] c = "2" -> 2 [] c = "3" -> 3
      [] c = "4" -> 4 [] c = "5" -> 5 [] c = "6" -> 6 [] c = "7" -> 7
      [] c = "8" -> 8 [] c = "9" -> 9

Last(s) == s[Len(s)]

\* str::find(pat).is_some() and split_once(pat).0 for a two-character pattern
RECURSIVE find2(_, _, _)
find2(s, pat, i) ==
    IF i + 1 > Len(s) THEN 0
    ELSE IF s[i] = pat[1] /\ s[i + 1] = pat[2] THEN i
    ELSE find2(s, pat, i + 1)

split_once_head(s, pat) == SubSeq(s, 1, find2(s, pat, 1) - 1)

\* str::trim_end
RECURSIVE trim_end(_)
trim_end(s) ==
    IF Len(s) = 0 THEN s
    ELSE IF is_whitespace(Last(s)) THEN trim_end(SubSeq(s, 1, Len(s) - 1))
    ELSE s

\* str::split on a one-character separator: every segment, empty ones included
RECURSIVE split_from(_, _, _, _)
split_from(s, sep, i, cur) ==
    IF i > Len(s) THEN <<cur>>
    ELSE IF s[i] = sep THEN <<cur>> \o split_from(s, sep, i + 1, <<>>)
    ELSE split_from(s, sep, i + 1, Append(cur, s[i]))

split(s, sep) == split_from(s, sep, 1, <<>>)

\* word.parse::<i32>() of an all-digit word: the value, or -1 for Err (overflow)
RECURSIVE parse_from(_, _, _)
parse_from(w, i, acc) ==
    IF i > Len(w) THEN acc
    ELSE IF acc > (I32Max - DigitValue(w[i])) \div 10 THEN -1
    ELSE parse_from(w, i + 1, acc * 10 + DigitValue(w[i]))

parse_i32(w) == parse_from(w, 1, 0)

-----------------------------------------------------------------------------
(* Values and tokens *)

NoName == <<>>

ValInt(n) == [kind |-> "Int", int |-> n, name |-> NoName]
ValLabel(w) == [kind |-> "Label", int |-> 0, name |-> w]
ValRegister(w) == [kind |-> "Register", int |-> 0, name |-> w]
ValEmpty == [kind |-> "Empty", int |-> 0, name |-> NoName]

ASTValue(v) == [node |-> "ASTValue", name |-> NoName, value |-> v]
ASTInstruction(w) == [node |-> "ASTInstruction", name |-> w, value |-> ValEmpty]
ASTRegister(w) == [node |-> "ASTRegister", name |-> w, value |-> ValEmpty]
ASTExprEnd == [node |-> "ASTExprEnd", name |-> NoName, value |-> ValEmpty]

\* one line of the diagnostic sink
Printed(msg, w) == [msg |-> msg, word |-> w]

-----------------------------------------------------------------------------
(* The machine *)

\* HashMap::insert
Insert(map, key, value) ==
    [k \in DOMAIN map \cup {key} |-> IF k = key THEN value ELSE map[k]]

EmptyMap == [k \in {} |-> 0]

\* ASMDefinition::new
new ==
    [registers |-> EmptyMap, instructions |-> EmptyMap, labels |-> EmptyMap,
     errors |-> 0, halted |-> FALSE, current_line |-> 0, stdout |-> <<>>]

\* ASMDefinition::insert_register: the register starts Empty
insert_register(self, reg_name) ==
    [self EXCEPT !.registers = Insert(@, reg_name, ValEmpty)]

\* ASMDefinition::insert_instruction: closure is the host's callback
insert_instruction(self, instruction_name, closure) ==
    [self EXCEPT !.instructions = Insert(@, instruction_name, closure)]

\* a raise that prints and halts but does not count the error
raise_exception_uncounted(self, error_message, halt_execution) ==
    [self EXCEPT !.stdout = Append(@, error_message),
                 !.halted = IF halt_execution THEN TRUE ELSE @]

\* ASMDefinition::raise_exception
raise_exception(self, error_message, halt_execution) ==
    [self EXCEPT !.stdout = Append(@, error_message),
                 !.halted = IF halt_execution THEN TRUE ELSE @,
                 !.errors = @ + 1]

Ok(self) == [self |-> self, panic |-> FALSE]
Panic(self) == [self |-> self, panic |-> TRUE]

\* jump without the - 1 that compensates for the loop's increment
jump_uncompensated(self, destination) ==
    Ok([self EXCEPT !.current_line = destination])

\* ASMDefinition::jump: destination - 1 on usize; with overflow checks 0 - 1 panics,
\* without them it wraps to usize::MAX
jump(self, destination) ==
    IF destination = 0 /\ build = "debug" THEN Panic(self)
    ELSE IF destination = 0 THEN Ok([self EXCEPT !.current_line = UsizeMax])
    ELSE Ok([self EXCEPT !.current_line = destination - 1])

\* ASMValue::get_value_holder: a Register-kind value resolves to what the
\* register holds, any other value is its own holder
get_value_holder(self, value) ==
    IF value.kind = "Register" /\ value.name \in DOMAIN self.registers
    THEN self.registers[value.name]
    ELSE value

\* ASMDefinition::jump_to_value ("inner_value as usize" keeps the residue)
jump_to_value(self, value) ==
    LET holder == get_value_holder(self, value)
    IN  IF holder.kind = "Int" THEN jump(self, holder.int)
        ELSE Ok(raise_exception(self,
                    Printed("Invalid value of provided destination!", NoName), TRUE))

\* jump_to_label that reports a bad label without halting
jump_to_label_lenient(self, label) ==
    LET holder == get_value_holder(self, label)
    IN  IF holder.kind = "Label" /\ holder.name \in DOMAIN self.labels
        THEN jump(self, self.labels[holder.name])
        ELSE Ok(raise_exception(self, Printed("Invalid label provided!", NoName), FALSE))

\* ASMDefinition::jump_to_label
jump_to_label(self, label) ==
    LET holder == get_value_holder(self, label)
    IN  IF holder.kind = "Label" /\ holder.name \in DOMAIN self.labels
        THEN jump(self, self.labels[holder.name])
        ELSE Ok(raise_exception(self, Printed("Invalid label provided!", NoName), TRUE))

-----------------------------------------------------------------------------
(* The scanner *)

\* match_instruction without the lookup in the instruction table
match_instruction_unchecked(self, word0) ==
    [self |-> self,
     node |-> ASTInstruction(SelectSeq(word0, LAMBDA c : ~is_whitespace(c)))]

\* an unknown mnemonic raised and left out of the tokens
match_instruction_rejecting(self, word0) ==
    LET word == SelectSeq(word0, LAMBDA c : ~is_whitespace(c))
    IN  IF word \notin DOMAIN self.instructions
        THEN [self |-> raise_exception(self, Printed("is an unknown instruction", word), TRUE),
              node |-> ASTExprEnd]
        ELSE [self |-> self, node |-> ASTInstruction(word)]

\* ASMDefinition::match_instruction
match_instruction(self, word0) ==
    LET word == SelectSeq(word0, LAMBDA c : ~is_whitespace(c))
    IN  [self |-> IF word \notin DOMAIN self.instructions
                  THEN raise_exception(self, Printed("is an unknown instruction", word), TRUE)
                  ELSE self,
         node |-> ASTInstruction(word)]

\* a malformed word reported as an error
match_argument_fallthrough_raises(self, word) ==
    [self |-> raise_exception(self, Printed("Malformed argument!", word), TRUE),
     node |-> ASTExprEnd, panic |-> FALSE]

\* the last return of match_argument: a word of no recognised form
match_argument_fallthrough(self, word) ==
    [self |-> self, node |-> ASTExprEnd, panic |-> FALSE]

\* ASMDefinition::match_argument
match_argument(self, word0) ==
    LET word == SelectSeq(word0, LAMBDA c : ~is_whitespace(c))
    IN  IF Len(word) = 0
        THEN [self |-> raise_exception(self, Printed("Empty argument!", NoName), TRUE),
              node |-> ASTExprEnd, panic |-> FALSE]
        ELSE IF \A i \in 1..Len(word) : is_numeric(word[i])
        THEN IF parse_i32(word) = -1
             THEN [self |-> self, node |-> ASTExprEnd, panic |-> TRUE]
             ELSE [self |-> self, node |-> ASTValue(ValInt(parse_i32(word))),
                   panic |-> FALSE]
        ELSE IF \A i \in 1..Len(word) : is_alphanumeric(word[i])
        THEN [self |-> self, node |-> ASTValue(ValLabel(word)), panic |-> FALSE]
        ELSE IF word[1] = "[" /\ Last(word) = "]"
        THEN LET name == SelectSeq(word, is_alphanumeric)
             IN  [self |-> [self EXCEPT !.stdout = Append(@, Printed("", name))],
                  node |-> ASTRegister(name), panic |-> FALSE]
        ELSE IF Last(word) = "\"" /\ word[1] = "\""
        THEN [self |-> self, node |-> ASTExprEnd, panic |-> TRUE]
        ELSE match_argument_fallthrough(self, word)

\* words.iter().for_each(|word| output.push(self.match_argument(word)))
RECURSIVE match_arguments(_, _, _, _)
match_arguments(self, out, words, i) ==
    IF i > Len(words) THEN [self |-> self, output |-> out, panic |-> FALSE]
    ELSE LET r == match_argument(self, words[i])
         IN  IF r.panic THEN [self |-> r.self, output |-> out, panic |-> TRUE]
             ELSE match_arguments(r.self, Append(out, r.node), words, i + 1)

\* a label bound one past the length of the token vector
insert_label_off_by_one(self, label, out) ==
    [self EXCEPT !.labels = Insert(@, label, Len(out) + 1)]

\* labels.insert(label, output.len())
insert_label(self, label, out) ==
    [self EXCEPT !.labels = Insert(@, label, Len(out))]

\* a statement whose terminator is never pushed
end_statement_missing(out) == out

\* output.push(ASTNode::ASTExprEnd)
end_statement(out) == Append(out, ASTExprEnd)

\* the body of scan's loop over the lines
scan_line(self, out, line) ==
    LET cut == IF find2(line, <<";", ";">>, 1) # 0
               THEN split_once_head(line, <<";", ";">>) ELSE line
        usable_line == trim_end(cut)
        words == split(usable_line, " ")
    IN  IF Len(usable_line) = 0 THEN [self |-> self, output |-> out, panic |-> FALSE]
        ELSE IF Len(words[1]) = 0
        THEN [self |-> self, output |-> out, panic |-> TRUE]
        ELSE IF Last(words[1]) = ":"
        THEN [self |-> insert_label(self, SelectSeq(words[1], LAMBDA c : c # ":"), out),
              output |-> out, panic |-> FALSE]
        ELSE LET m == match_instruction(self, words[1])
                 r == match_arguments(m.self, Append(out, m.node), words, 2)
             IN  IF r.panic THEN r
                 ELSE [self |-> r.self, output |-> end_statement(r.output),
                       panic |-> FALSE]

\* a token vector that still holds what the previous scan returned
scan_output_stale == ast

\* let mut output: Vec<ASTNode> = Vec::new()
scan_output_init == <<>>

\* scan's loop over the lines, from the i-th on
RECURSIVE scan_from(_, _, _, _)
scan_from(self, out, ls, i) ==
    IF i > Len(ls)
    THEN [self |-> self, output |-> out, panic |-> FALSE]
    ELSE LET r == scan_line(self, out, ls[i])
         IN  IF r.panic THEN r ELSE scan_from(r.self, r.output, ls, i + 1)

\* ASMDefinition::scan, as one function of the machine and the source
scan(self, source) == scan_from(self, scan_output_init, split(source, "\n"), 1)

-----------------------------------------------------------------------------
(* The host's callbacks.  SET, ADD and JMP are the instructions of the     *)
(* round-trip scenario; JMPV is a callback that passes its operand to      *)
(* jump_to_value.  A callback ignores a statement it has too few operands  *)
(* for.                                                                    *)

\* i32 addition: overflow panics with overflow checks and wraps without them
add_i32(self, dst, a, b) ==
    IF a > I32Max - b
    THEN IF build = "debug" THEN Panic(self)
         ELSE Ok([self EXCEPT !.registers =
                    Insert(@, dst, ValInt(((a - I32Max) - 1) + b - I32Max - 1))])
    ELSE Ok([self EXCEPT !.registers = Insert(@, dst, ValInt(a + b))])

\* SET(dst, val): dst = val
cb_SET(self, args) ==
    IF Len(args) >= 2 /\ args[1].kind = "Register"
    THEN Ok([self EXCEPT !.registers =
                Insert(@, args[1].name, get_value_holder(self, args[2]))])
    ELSE Ok(self)

\* ADD(dst, a, b): dst = a + b; with two operands dst is also the first addend
cb_ADD(self, args) ==
    LET n == Len(args)
        a == get_value_holder(self, args[n - 1])
        b == get_value_holder(self, args[n])
    IN  IF n >= 2 /\ args[1].kind = "Register" /\ a.kind = "Int" /\ b.kind = "Int"
        THEN add_i32(self, args[1].name, a.int, b.int)
        ELSE Ok(self)

\* JMP(target): jump_to_label(target)
cb_JMP(self, args) ==
    IF Len(args) >= 1 THEN jump_to_label(self, args[1]) ELSE Ok(self)

\* JMPV(target): jump_to_value(target)
cb_JMPV(self, args) ==
    IF Len(args) >= 1 THEN jump_to_value(self, args[1]) ELSE Ok(self)

\* ASMInstruction::call
call(instruction, self, args) ==
    CASE instruction = "SET" -> cb_SET(self, args)
      [] instruction = "ADD" -> cb_ADD(self, args)
      [] instruction = "JMP" -> cb_JMP(self, args)
      [] instruction = "JMPV" -> cb_JMPV(self, args)

-----------------------------------------------------------------------------
(* The run loop *)

\* self.current_line < token_stream.len(), on usize
in_range(cursor, stream) == cursor >= 0 /\ cursor < Len(stream)

\* self.current_line += 1 on usize
advance(self) ==
    IF self.current_line = UsizeMax
    THEN IF build = "debug" THEN Panic(self) ELSE Ok([self EXCEPT !.current_line = 0])
    ELSE Ok([self EXCEPT !.current_line = @ + 1])

\* "continue": the next iteration starts without the increment
continue(self, instruction, args) ==
    [self |-> self, instruction |-> instruction, args |-> args,
     panic |-> FALSE, invoked |-> FALSE, landed |-> self.current_line]

\* the end of the loop body: self.current_line += 1
next_token(self, instruction, args, was_invoked) ==
    LET r == advance(self)
    IN  [self |-> r.self, instruction |-> instruction, args |-> args,
         panic |-> r.panic, invoked |-> was_invoked, landed |-> self.current_line]

\* a halted check that never returns
halted_check_never(self) == FALSE

\* if self.halted { return; }
halted_check(self) == self.halted

\* a lookup that takes every register for declared
register_declared_always(self, reference) == TRUE

\* self.registers.get(&reference) is Some
register_declared(self, reference) == reference \in DOMAIN self.registers

\* a terminator with no pending instruction reported like a bare value
idle_terminator_raises(self, instruction, args) ==
    continue(raise_exception(self,
                 Printed("ASTExprEnd encountered with no instruction present", NoName),
                 TRUE),
             instruction, args)

\* the ASTExprEnd arm while no instruction is pending: None => {}
idle_terminator(self, instruction, args) ==
    next_token(self, instruction, args, FALSE)

\* the callback has returned, but the collected arguments are kept
after_call_leaky(self, instruction, args) ==
    next_token(self, "None", args, TRUE)

\* the callback has returned: current_instruction = None; current_args.clear()
after_call(self, instruction, args) ==
    next_token(self, "None", <<>>, TRUE)

\* the ASTRegister arm while no instruction is pending
idle_register(self, instruction, args) ==
    continue(raise_exception(self,
                 Printed("Register reference encountered with no instruction present",
                         NoName), FALSE),
             instruction, args)

\* one iteration of run's loop on `token`, after the halted check
run_token(self, token, instruction, args) ==
    CASE token.node = "ASTValue" ->
           IF instruction = "None"
           THEN continue(raise_exception(self,
                    Printed("ASTValue encountered with no instruction present", NoName),
                    TRUE), instruction, args)
           ELSE next_token(self, instruction, Append(args, token.value), FALSE)
      [] token.node = "ASTInstruction" ->
           IF instruction # "None"
           THEN continue(raise_exception(self,
                    Printed("ASTInstruction encountered when another instruction is called",
                            NoName), TRUE), instruction, args)
           ELSE IF token.name \notin DOMAIN self.instructions
           THEN continue(raise_exception(self,
                    Printed("Not a valid instruction", NoName), TRUE), instruction, args)
           ELSE next_token(self, self.instructions[token.name], args, FALSE)
      [] token.node = "ASTRegister" ->
           IF instruction = "None"
           THEN idle_register(self, instruction, args)
           ELSE IF ~register_declared(self, token.name)
           THEN continue(raise_exception(self,
                    Printed("Register not defined in ASMDefinition", NoName), TRUE),
                    instruction, args)
           ELSE next_token(self, instruction, Append(args, ValRegister(token.name)), FALSE)
      [] token.node = "ASTExprEnd" ->
           IF instruction # "None"
           THEN LET c == call(instruction, self, args)
                IN  IF c.panic
                    THEN [self |-> c.self, instruction |-> instruction, args |-> args,
                          panic |-> TRUE, invoked |-> TRUE,
                          landed |-> c.self.current_line]
                    ELSE after_call(c.self, instruction, args)
           ELSE idle_terminator(self, instruction, args)

-----------------------------------------------------------------------------
(* Inputs: source texts, machines and host programs *)

\* the text of a word given as a sequence of characters
SET == <<"S", "E", "T">>
ADD == <<"A", "D", "D">>
JMP == <<"J", "M", "P">>
JMPV == <<"J", "M", "P", "V">>
FOO == <<"F", "O", "O">>
RegR == <<"[", "r", "]">>
RegQ == <<"[", "q", "]">>
LabelWord == <<"l", "a", "b", "e", "l">>
LabelDecl == <<"l", "a", "b", "e", "l", ":">>
Bad == <<"@", "#", "$">>
Comment == <<";", ";", " ", "x">>
BigInt == <<"2", "1", "4", "7", "4", "8", "3", "6", "4", "8">>
MaxInt == <<"2", "1", "4", "7", "4", "8", "3", "6", "4", "7">>

RECURSIVE JoinWith(_, _)
JoinWith(parts, sep) ==
    IF Len(parts) = 0 THEN <<>>
    ELSE IF Len(parts) = 1 THEN parts[1]
    ELSE parts[1] \o <<sep>> \o JoinWith(Tail(parts), sep)

Line(words) == JoinWith(words, " ")
Text(ls) == JoinWith(ls, "\n")

LineSet == Line(<<SET, RegR, <<"5">>>>)
LineAdd == Line(<<ADD, RegR, RegR>>)
LineJmp == Line(<<JMP, LabelWord>>)
LineLabel == LabelDecl
LineBadReg == Line(<<SET, Bad, RegR>>)
LineJmpv == Line(<<JMPV, <<"0">>>>)
LineBlank == <<>>

\* the lines every text of at most MaxLines lines is built from
Vocabulary == {LineSet, LineAdd, LineJmp, LineLabel, LineBadReg, LineJmpv, LineBlank}

RECURSIVE Texts(_)
Texts(n) ==
    IF n = 0 THEN {}
    ELSE {<<l>> : l \in Vocabulary}
         \cup {Append(t, l) : t \in Texts(n - 1), l \in Vocabulary}

\* the round-trip scenario: SET [r] 5 / JMP label / label: / ADD [r] [r]
RoundTrip == Text(<<LineSet, LineJmp, LineLabel, LineAdd>>)

Scenarios ==
    { RoundTrip,
      Text(<<Line(<<JMPV, <<"3">>>>), LineSet>>),
      Text(<<Line(<<JMPV, <<"5">>>>), LineSet>>),
      Text(<<LineSet, Line(<<JMPV, RegR>>), LineAdd>>),
      Line(<<JMPV, LabelWord>>),
      Line(<<JMP, <<"5">>>>),
      Line(<<JMP, <<"x">>>>),
      Line(<<JMP, RegR>>),
      Line(<<SET, Bad, <<"5">>>>),
      Line(<<SET, RegR, Bad, <<"5">>>>),
      Line(<<<<>>, SET, RegR, <<"5">>>>),
      Line(<<SET, <<>>, <<"5">>>>),
      Line(<<SET, RegR, <<"\"", "q", "\"">>>>),
      Line(<<SET, RegR, BigInt>>),
      Line(<<SET, RegR, MaxInt>>),
      Line(<<SET, RegR, <<"5">>, Comment>>),
      Comment,
      Line(<<SET, RegR, <<"5">>, <<>>, <<>>>>),
      Line(<<FOO, <<"1">>>>),
      Line(<<SET, RegQ, <<"1">>>>),
      Line(<<SET \o <<"\t">> \o RegR, <<"5">>>>),
      Line(<<LabelDecl, SET, RegR, <<"5">>>>),
      Text(<<LineLabel, LineSet, LineLabel>>),
      Text(<<<<"x", ":">>, LineLabel, LineJmp>>),
      Text(<<LineSet, <<"x", ":", ":">>, LineLabel>>) }

Sources == {Text(t) : t \in Texts(MaxLines)} \cup {<<>>} \cup Scenarios

\* the instruction table with every callback registered
FullTable(self) ==
    insert_instruction(insert_instruction(insert_instruction(insert_instruction(
        self, SET, "SET"), ADD, "ADD"), JMP, "JMP"), JMPV, "JMPV")

Machines ==
    { new, insert_register(new, <<"r">>),
      FullTable(new), FullTable(insert_register(new, <<"r">>)) }

\* what the host calls, in order
Scripts == {<<"interpret">>, <<"interpret", "interpret">>, <<"scan", "scan">>}

-----------------------------------------------------------------------------
(* The state machine *)

Init ==
    /\ def \in Machines
    /\ build \in {"debug", "release"}
    /\ code \in Sources
    /\ host \in Scripts
    /\ pc = "host"
    /\ entry = "none"
    /\ lines = <<>>
    /\ line_no = 1
    /\ output = <<>>
    /\ ast = <<>>
    /\ token_stream = <<>>
    /\ current_instruction = "None"
    /\ current_args = <<>>
    /\ steps = 0
    /\ invoked = <<>>
    /\ scans = <<>>

\* the host calls scan(code) or interpret(code): scan splits the text into lines
ScanStart ==
    /\ pc = "host"
    /\ host # <<>>
    /\ Head(host) \in {"scan", "interpret"}
    /\ entry' = Head(host)
    /\ host' = Tail(host)
    /\ lines' = split(code, "\n")
    /\ line_no' = 1
    /\ output' = scan_output_init
    /\ pc' = "scan"
    /\ UNCHANGED <<def, build, code, ast, token_stream, current_instruction,
                   current_args, steps, invoked, scans>>

\* one line of scan's loop
ScanLine ==
    /\ pc = "scan"
    /\ line_no <= Len(lines)
    /\ LET r == scan_line(def, output, lines[line_no])
       IN  /\ def' = r.self
           /\ output' = r.output
           /\ pc' = IF r.panic THEN "panic" ELSE "scan"
    /\ line_no' = line_no + 1
    /\ UNCHANGED <<build, code, host, entry, lines, ast, token_stream,
                   current_instruction, current_args, steps, invoked, scans>>

\* scan returns its token vector
ScanReturn ==
    /\ pc = "scan"
    /\ line_no > Len(lines)
    /\ ast' = output
    /\ scans' = Append(scans, [ast |-> output, labels |-> def.labels])
    /\ pc' = IF entry = "interpret" THEN "scanned" ELSE "host"
    /\ UNCHANGED <<def, build, code, host, entry, lines, line_no, output,
                   token_stream, current_instruction, current_args, steps, invoked>>

\* interpret passes the tokens to run, which starts with no pending instruction
RunStart ==
    /\ pc = "scanned"
    /\ token_stream' = ast
    /\ current_instruction' = "None"
    /\ current_args' = <<>>
    /\ pc' = "run"
    /\ UNCHANGED <<def, build, code, host, entry, lines, line_no, output, ast,
                   steps, invoked, scans>>

\* one iteration of run's loop that gets past the halted check
RunStep ==
    /\ pc = "run"
    /\ steps < MaxSteps
    /\ in_range(def.current_line, token_stream)
    /\ ~halted_check(def)
    /\ LET r == run_token(def, token_stream[def.current_line + 1],
                          current_instruction, current_args)
       IN  /\ def' = r.self
           /\ current_instruction' = r.instruction
           /\ current_args' = r.args
           /\ pc' = IF r.panic THEN "panic" ELSE "run"
           /\ invoked' = IF r.invoked
                         THEN Append(invoked, [instruction |-> current_instruction,
                                               args |-> current_args,
                                               at |-> def.current_line,
                                               landed |-> r.landed,
                                               panic |-> r.panic,
                                               step |-> steps + 1])
                         ELSE invoked
    /\ steps' = steps + 1
    /\ UNCHANGED <<build, code, host, entry, lines, line_no, output, ast,
                   token_stream, scans>>

\* the loop's condition fails, or halted is set: run returns
RunReturn ==
    /\ pc = "run"
    /\ ~in_range(def.current_line, token_stream) \/ halted_check(def)
    /\ pc' = "host"
    /\ UNCHANGED <<def, build, code, host, entry, lines, line_no, output, ast,
                   token_stream, current_instruction, current_args, steps,
                   invoked, scans>>

Next == ScanStart \/ ScanLine \/ ScanReturn \/ RunStart \/ RunStep \/ RunReturn

Spec == Init /\ [][Next]_vars

-----------------------------------------------------------------------------
(* The host calls run itself, on a token vector of its own making *)

MaxTokens == 3

Tokens ==
    { ASTInstruction(SET), ASTInstruction(FOO), ASTValue(ValInt(5)),
      ASTRegister(<<"r">>), ASTRegister(<<"q">>), ASTExprEnd }

RECURSIVE TokenVectors(_)
TokenVectors(n) ==
    IF n = 0 THEN {<<>>}
    ELSE TokenVectors(n - 1)
         \cup {Append(v, t) : v \in {w \in TokenVectors(n - 1) : Len(w) = n - 1},
                              t \in Tokens}

RunScripts == {<<"run">>, <<"run", "run">>}

InitRun ==
    /\ def \in Machines
    /\ build \in {"debug", "release"}
    /\ code = <<>>
    /\ host \in RunScripts
    /\ pc = "host"
    /\ entry = "none"
    /\ lines = <<>>
    /\ line_no = 1
    /\ output = <<>>
    /\ ast \in TokenVectors(MaxTokens)
    /\ token_stream = <<>>
    /\ current_instruction = "None"
    /\ current_args = <<>>
    /\ steps = 0
    /\ invoked = <<>>
    /\ scans = <<>>

\* the host calls run(ast): run starts with no pending instruction
RunCall ==
    /\ pc = "host"
    /\ host # <<>>
    /\ Head(host) = "run"
    /\ entry' = "run"
    /\ host' = Tail(host)
    /\ token_stream' = ast
    /\ current_instruction' = "None"
    /\ current_args' = <<>>
    /\ pc' = "run"
    /\ UNCHANGED <<def, build, code, lines, line_no, output, ast, steps, invoked, scans>>

NextRun == RunCall \/ RunStep \/ RunReturn

SpecRun == InitRun /\ [][NextRun]_vars

\* either kind of host
InitAll == Init \/ InitRun

NextAll ==
    ScanStart \/ ScanLine \/ ScanReturn \/ RunStart \/ RunCall \/ RunStep \/ RunReturn

SpecAll == InitAll /\ [][NextAll]_vars

-----------------------------------------------------------------------------
(* What the source text says, line by line, for the properties below *)

SourceLines == split(code, "\n")

UsableLine(line) ==
    trim_end(IF find2(line, <<";", ";">>, 1) # 0
             THEN split_once_head(line, <<";", ";">>) ELSE line)

Words(line) == split(UsableLine(line), " ")

IsBlank(line) == Len(UsableLine(line)) = 0
IsLabelLine(line) ==
    ~IsBlank(line) /\ Len(Words(line)[1]) > 0 /\ Last(Words(line)[1]) = ":"
IsStatement(line) ==
    ~IsBlank(line) /\ Len(Words(line)[1]) > 0 /\ Last(Words(line)[1]) # ":"

\* the name a label line declares: its first word without the colons
DeclaredLabel(line) == SelectSeq(Words(line)[1], LAMBDA c : c # ":")

\* a statement emits its mnemonic, one token per further word, and a terminator
TokensOf(line) == IF IsStatement(line) THEN Len(Words(line)) + 1 ELSE 0

\* the number of tokens emitted for the lines before line i
RECURSIVE TokensBefore(_, _)
TokensBefore(ls, i) ==
    IF i <= 1 THEN 0
    ELSE TokensBefore(ls, i - 1) + TokensOf(ls[i - 1])

\* the first statement line after line i, or 0 when no statement follows
NextStatement(ls, i) ==
    IF \E k \in (i + 1)..Len(ls) : IsStatement(ls[k])
    THEN CHOOSE k \in (i + 1)..Len(ls) :
            /\ IsStatement(ls[k])
            /\ \A m \in (i + 1)..(k - 1) : ~IsStatement(ls[m])
    ELSE 0

\* a scan of the text has returned and no other scan is under way
Scanned == Len(scans) >= 1 /\ pc # "scan"

\* the first interpret of a fresh machine has returned
FirstInterpretDone == pc = "host" /\ entry = "interpret" /\ Len(scans) = 1

HasFullTable == DOMAIN def.instructions = {SET, ADD, JMP, JMPV}
HasNoInstructions == DOMAIN def.instructions = {}
HasRegisterR == <<"r">> \in DOMAIN def.registers

InvokedNames == [i \in 1..Len(invoked) |-> invoked[i].instruction]

-----------------------------------------------------------------------------
\* C1: interpreting SET [r] 5 / JMP label / label: / ADD [r] [r] on a fresh
\* machine with register r and the instructions SET, JMP, ADD invokes SET, JMP
\* and ADD once each in that order; the jump lands on the first token of the ADD
\* statement (index 7), and the run ends with the cursor at the length of the
\* token sequence, halted false, no error, and r = 10.
C1_RoundTrip ==
    (code = RoundTrip /\ HasFullTable /\ HasRegisterR /\ Len(scans) = 1) =>
        /\ (pc = "run" /\ Len(invoked) = 2 /\ steps = invoked[2].step) =>
              /\ def.current_line = 7
              /\ token_stream[def.current_line + 1] = ASTInstruction(ADD)
        /\ FirstInterpretDone =>
              /\ InvokedNames = <<"SET", "JMP", "ADD">>
              /\ Len(token_stream) = 11
              /\ def.current_line = Len(token_stream)
              /\ ~def.halted
              /\ def.errors = 0
              /\ def.registers[<<"r">>] = ValInt(10)

C1_Witness ==
    /\ code = RoundTrip /\ HasFullTable /\ HasRegisterR
    /\ FirstInterpretDone
    /\ Len(invoked) = 3

\* C2 (as amended): after scan, for every label L, labels[L] is the number of
\* tokens emitted for the lines before the LAST line that declares L, which is
\* the index of the first token of the next statement, or the length of the
\* token sequence when no statement follows; label lines emit no tokens, so
\* labels whose last declarations are on consecutive lines map to the same
\* index.
C2_LabelIndex ==
    Scanned =>
        /\ \A i \in 1..Len(SourceLines) :
              (/\ IsLabelLine(SourceLines[i])
               /\ \A j \in (i + 1)..Len(SourceLines) :
                     IsLabelLine(SourceLines[j]) =>
                        DeclaredLabel(SourceLines[j]) # DeclaredLabel(SourceLines[i]))
              => /\ DeclaredLabel(SourceLines[i]) \in DOMAIN def.labels
                 /\ def.labels[DeclaredLabel(SourceLines[i])] = TokensBefore(SourceLines, i)
                 /\ TokensBefore(SourceLines, i + 1) = TokensBefore(SourceLines, i)
                 /\ IF NextStatement(SourceLines, i) = 0
                    THEN def.labels[DeclaredLabel(SourceLines[i])] = Len(ast)
                    ELSE ast[def.labels[DeclaredLabel(SourceLines[i])] + 1]
                           = ASTInstruction(SelectSeq(
                                 Words(SourceLines[NextStatement(SourceLines, i)])[1],
                                 LAMBDA c : ~is_whitespace(c)))
                 /\ (/\ i < Len(SourceLines)
                     /\ IsLabelLine(SourceLines[i + 1])
                     /\ DeclaredLabel(SourceLines[i + 1]) \in DOMAIN def.labels
                     /\ \A j \in (i + 2)..Len(SourceLines) :
                           IsLabelLine(SourceLines[j]) =>
                              DeclaredLabel(SourceLines[j]) # DeclaredLabel(SourceLines[i + 1]))
                    => def.labels[DeclaredLabel(SourceLines[i + 1])]
                          = def.labels[DeclaredLabel(SourceLines[i])]
        /\ Len(ast) = TokensBefore(SourceLines, Len(SourceLines) + 1)

C2_Witness ==
    /\ Scanned
    /\ \E i \in 1..Len(SourceLines) :
          /\ IsLabelLine(SourceLines[i])
          /\ def.labels[DeclaredLabel(SourceLines[i])] = TokensBefore(SourceLines, i)
          /\ TokensBefore(SourceLines, i) > 0

\* C2 as stated: labels[L] is the number of tokens emitted before EVERY line
\* that declares L.
C2_EveryDeclaration ==
    Scanned =>
        \A i \in 1..Len(SourceLines) :
            IsLabelLine(SourceLines[i]) =>
                def.labels[DeclaredLabel(SourceLines[i])] = TokensBefore(SourceLines, i)


-----------------------------------------------------------------------------
(* Steps of the run loop, for the properties below *)

\* the loop processes a token in this step
RunStepTaken == pc = "run" /\ steps' = steps + 1

CurrentToken == token_stream[def.current_line + 1]

\* the step invokes the pending callback `instruction` on at least one argument
Invokes(instruction) ==
    /\ RunStepTaken
    /\ CurrentToken.node = "ASTExprEnd"
    /\ current_instruction = instruction
    /\ Len(current_args) >= 1

FirstArgHolder == get_value_holder(def, current_args[1])

\* C3 (as stated, its last part): every token run processes without a jump
\* either advances the cursor by one or sets halted, so run terminates.
C3_EveryTokenProgresses ==
    [][(/\ RunStepTaken
        /\ ~(CurrentToken.node = "ASTExprEnd" /\ current_instruction \in {"JMP", "JMPV"})
        /\ pc' # "panic")
       => (def'.current_line = def.current_line + 1 \/ def'.halted)]_vars

\* C4 (as stated): a RegisterRef processed while idle records an error without
\* setting halted, and run goes on to the tokens that follow it.
C4_IdleRegisterGoesOn ==
    [][(RunStepTaken /\ CurrentToken.node = "ASTRegister" /\ current_instruction = "None")
       => /\ def'.errors = def.errors + 1
          /\ ~def'.halted
          /\ def'.current_line = def.current_line + 1]_vars


-----------------------------------------------------------------------------
(* Scanning a fresh machine, for the properties below *)

Strip(word) == SelectSeq(word, LAMBDA c : ~is_whitespace(c))

\* the first scan of the machine has returned and nothing has run since
FirstScanReturned ==
    Len(scans) = 1 /\ (pc = "scanned" \/ (pc = "host" /\ entry = "scan"))

StatementLines == {i \in 1..Len(SourceLines) : IsStatement(SourceLines[i])}

\* the argument words of the statement lines among the first n lines
ArgumentWords(n) ==
    UNION {{<<i, j>> : j \in 2..Len(Words(SourceLines[i]))} :
              i \in {k \in StatementLines : k <= n}}

ArgWord(ij) == Strip(Words(SourceLines[ij[1]])[ij[2]])

\* an argument word that is not empty and is neither digit-only, alphanumeric,
\* bracketed nor quoted
Malformed(w) ==
    /\ Len(w) > 0
    /\ ~(\A k \in 1..Len(w) : w[k] \in Digits)
    /\ ~(\A k \in 1..Len(w) : w[k] \in Digits \cup Letters)
    /\ ~(w[1] = "[" /\ Last(w) = "]")
    /\ ~(w[1] = "\"" /\ Last(w) = "\"")

UnknownMnemonics(n) ==
    {i \in StatementLines : i <= n /\ Strip(Words(SourceLines[i])[1]) \notin DOMAIN def.instructions}

EmptyArguments(n) == {ij \in ArgumentWords(n) : Len(ArgWord(ij)) = 0}

PrintedWith(msg) == {k \in 1..Len(def.stdout) : def.stdout[k].msg = msg}

\* every statement line's tokens are in `tokens`: its mnemonic first, its
\* terminator last
CompleteTokens(tokens) ==
    /\ Len(tokens) = TokensBefore(SourceLines, Len(SourceLines) + 1)
    /\ \A i \in StatementLines :
          /\ tokens[TokensBefore(SourceLines, i) + 1]
                = ASTInstruction(Strip(Words(SourceLines[i])[1]))
          /\ tokens[TokensBefore(SourceLines, i + 1)] = ASTExprEnd

\* C5 (as stated): with an empty instruction table, scan records exactly one
\* error per statement line, returns the complete token sequence and leaves
\* halted false.
C5_OneErrorNotHalted ==
    (HasNoInstructions /\ FirstScanReturned) =>
        /\ def.errors = Cardinality(StatementLines)
        /\ CompleteTokens(ast)
        /\ ~def.halted

\* C5 (as amended): with an empty instruction table, a scan that returns records
\* exactly one unknown-mnemonic error per statement line, and besides these only
\* one "Empty argument!" error per empty argument word; it returns the complete
\* token sequence; and it leaves halted true exactly when the source has a
\* statement line.
C5_OneUnknownPerStatement ==
    (HasNoInstructions /\ FirstScanReturned) =>
        /\ Cardinality(PrintedWith("is an unknown instruction")) = Cardinality(StatementLines)
        /\ def.errors = Cardinality(StatementLines)
                        + Cardinality(EmptyArguments(Len(SourceLines)))
        /\ CompleteTokens(ast)
        /\ def.halted = (StatementLines # {})

C5_Witness ==
    /\ HasNoInstructions /\ FirstScanReturned
    /\ Cardinality(StatementLines) >= 2
    /\ def.errors = Cardinality(StatementLines)
    /\ def.halted

\* C6 (as stated): jump_to_label(v) with v a Label whose name is in the label
\* table raises no error, leaves halted unchanged and makes the next token
\* processed the one at the recorded index, for every index scan can record.
C6_JumpToLabelLands ==
    [][(/\ Invokes("JMP")
        /\ FirstArgHolder.kind = "Label"
        /\ FirstArgHolder.name \in DOMAIN def.labels)
       => /\ pc' = "run"
          /\ def'.errors = def.errors
          /\ def'.halted = def.halted
          /\ def'.current_line = def.labels[FirstArgHolder.name]]_vars


-----------------------------------------------------------------------------
\* the latest invocation was of JMPV on the integer literal n, and nothing has
\* happened since
JustJumpedToValue(n) ==
    /\ Len(invoked) >= 1
    /\ invoked[Len(invoked)].instruction = "JMPV"
    /\ Len(invoked[Len(invoked)].args) >= 1
    /\ invoked[Len(invoked)].args[1] = ValInt(n)
    /\ steps = invoked[Len(invoked)].step
    /\ pc \in {"run", "panic"}

JumpTargets == 0..(Len(token_stream) + 1)

C8_FailedJumps ==
    [][/\ (Invokes("JMPV") /\ FirstArgHolder.kind = "Label")
            => /\ def'.halted
               /\ def'.errors = def.errors + 1
               /\ Last(def'.stdout).msg = "Invalid value of provided destination!"
               /\ Last(invoked').landed = def.current_line
               /\ def'.current_line = def.current_line + 1
       /\ (/\ Invokes("JMP")
           /\ \/ FirstArgHolder.kind = "Int"
              \/ (FirstArgHolder.kind = "Label"
                    /\ FirstArgHolder.name \notin DOMAIN def.labels))
            => /\ def'.halted
               /\ def'.errors = def.errors + 1
               /\ Last(def'.stdout).msg = "Invalid label provided!"
               /\ Last(invoked').landed = def.current_line
               /\ def'.current_line = def.current_line + 1]_vars

C8_Witness ==
    /\ Len(invoked) >= 1
    /\ invoked[Len(invoked)].instruction = "JMP"
    /\ invoked[Len(invoked)].args = <<ValLabel(<<"x">>)>>
    /\ steps = invoked[Len(invoked)].step
    /\ def.halted
    /\ Last(def.stdout).msg = "Invalid label provided!"

\* C9: scanning the same source twice on the same machine returns the same
\* token sequence both times and leaves the same label table.
C9_ScanIdempotent ==
    Len(scans) >= 2 =>
        /\ scans[2].ast = scans[1].ast
        /\ scans[2].labels = scans[1].labels

C9_Witness ==
    /\ Len(scans) = 2
    /\ Len(scans[2].ast) > 0
    /\ DOMAIN scans[2].labels # {}

\* the first scan of the machine is under way or has just returned
InFirstScan == (pc = "scan" /\ Len(scans) = 0) \/ FirstScanReturned

\* the lines that scan has processed, and the tokens it has emitted for them
ScannedLines == IF pc = "scan" THEN line_no - 1 ELSE Len(SourceLines)
ScannedTokens == IF pc = "scan" THEN output ELSE ast

\* C10: for every argument word that is neither digit-only, alphanumeric,
\* bracketed nor quoted, scan emits a statement terminator in the word's
\* position and raises no error for it: the errors recorded are those of the
\* unknown mnemonics and of the empty words alone.  The other words of the line
\* are emitted as operands around it, and the line's own terminator follows.
C10_MalformedWord ==
    InFirstScan =>
        /\ Len(ScannedTokens) = TokensBefore(SourceLines, ScannedLines + 1)
        /\ \A ij \in ArgumentWords(ScannedLines) :
              LET t == ScannedTokens[TokensBefore(SourceLines, ij[1]) + ij[2]]
              IN  /\ Malformed(ArgWord(ij)) => t = ASTExprEnd
                  /\ (~Malformed(ArgWord(ij)) /\ Len(ArgWord(ij)) > 0)
                        => t.node \in {"ASTValue", "ASTRegister"}
        /\ \A i \in StatementLines :
              i <= ScannedLines
                 => ScannedTokens[TokensBefore(SourceLines, i + 1)] = ASTExprEnd
        /\ def.errors = Cardinality(UnknownMnemonics(ScannedLines))
                        + Cardinality(EmptyArguments(ScannedLines))
        /\ def.halted = (def.errors > 0)

C10_Witness ==
    /\ FirstScanReturned
    /\ def.errors = 0
    /\ \E ij \in ArgumentWords(Len(SourceLines)) :
          /\ Malformed(ArgWord(ij))
          /\ ij[2] < Len(Words(SourceLines[ij[1]]))
          /\ ast[TokensBefore(SourceLines, ij[1]) + ij[2]] = ASTExprEnd
          /\ ast[TokensBefore(SourceLines, ij[1]) + ij[2] + 1].node # "ASTExprEnd"

-----------------------------------------------------------------------------
(* Runs of the loop on the host's own token vectors *)

\* run has been called on the vector `tokens` and has returned
Ran(tokens) == token_stream = tokens /\ pc = "host" /\ entry = "run"

\* C11: a statement terminator processed while no instruction is pending
\* changes nothing but the cursor, which moves on by one: no register, error
\* count, halted flag or output changes, no callback is invoked and the loop
\* stays idle.  So run([StatementEnd]) on a fresh machine returns with the
\* machine as it was built, except for a cursor of 1.
C11_IdleTerminator ==
    /\ [](Ran(<<ASTExprEnd>>)
            => /\ \E m \in Machines : def = [m EXCEPT !.current_line = 1]
               /\ invoked = <<>>)
    /\ [][(/\ RunStepTaken
           /\ CurrentToken = ASTExprEnd
           /\ current_instruction = "None")
          => /\ def' = [def EXCEPT !.current_line = def.current_line + 1]
             /\ invoked' = invoked
             /\ current_instruction' = "None"
             /\ current_args' = current_args
             /\ pc' = "run"]_vars

C11_Witness ==
    /\ Ran(<<ASTExprEnd>>)
    /\ def.current_line = 1
    /\ steps = 1

-----------------------------------------------------------------------------
(* The halted flag and the errors *)

\* a source with a statement whose mnemonic is not registered has been, or is
\* being, interpreted
InterpretsUnknownMnemonic ==
    entry = "interpret" /\ UnknownMnemonics(Len(SourceLines)) # {}

\* C12: once halted is true the run loop processes no further token: while run
\* is active on a halted machine, nothing of the machine, of the pending
\* instruction or of the collected arguments changes and no callback is
\* invoked; run can only return.  This holds when halted was set during the
\* run and when scan already set it: an interpret of a source with an unknown
\* mnemonic invokes no callback at all.
C12_HaltedStops ==
    /\ [][(pc = "run" /\ def.halted)
          => /\ def' = def
             /\ invoked' = invoked
             /\ current_instruction' = current_instruction
             /\ current_args' = current_args
             /\ steps' = steps
             /\ pc' = "host"]_vars
    /\ [](InterpretsUnknownMnemonic => invoked = <<>> /\ steps = 0)

\* run has returned on a pending instruction met while another was collecting,
\* with tokens left over
C12_Witness ==
    /\ pc = "host"
    /\ entry = "run"
    /\ def.halted
    /\ PrintedWith("ASTInstruction encountered when another instruction is called") # {}
    /\ in_range(def.current_line, token_stream)
    /\ current_instruction # "None"

\* a call of run begins in this step
RunBegins == pc # "run" /\ pc' = "run"

\* C13 (as stated): every call of run processes its token sequence starting
\* from cursor 0 with no pending instruction and no collected argument,
\* including a call on a machine that has already completed or halted an
\* earlier run.
C13_RunStartsAtZero ==
    [][RunBegins
       => /\ def'.current_line = 0
          /\ current_instruction' = "None"
          /\ current_args' = <<>>]_vars

-----------------------------------------------------------------------------
(* Statements as the run loop collects and invokes them *)

\* the argument that run makes of an operand token
Operand(token) ==
    CASE token.node = "ASTValue" -> token.value
      [] token.node = "ASTRegister" -> ValRegister(token.name)
      [] OTHER -> ValEmpty

IsOperand(token) == token.node \in {"ASTValue", "ASTRegister"}

\* the loop is collecting the statement whose mnemonic is the p-th token: the
\* tokens from there to the cursor are its operands, collected in their order
CollectingFrom(p) ==
    /\ token_stream[p].node = "ASTInstruction"
    /\ token_stream[p].name \in DOMAIN def.instructions
    /\ def.instructions[token_stream[p].name] = current_instruction
    /\ Len(current_args) = def.current_line - p
    /\ \A i \in 1..Len(current_args) :
          /\ IsOperand(token_stream[p + i])
          /\ current_args[i] = Operand(token_stream[p + i])

\* C14: for every statement M a1 ... an that run reaches with no instruction
\* pending, M registered and every register operand declared, the arguments
\* collected are a1 ... an in source order (Int and Label values as they are,
\* a register reference as a Register-kind value of that name); M's callback
\* is invoked exactly once, at the terminator, with exactly these arguments,
\* and no callback is invoked at any other token; when the callback returns
\* the loop is idle again with an empty argument list.
C14_StatementInvokedOnce ==
    /\ [](pc = "run"
            => IF current_instruction = "None"
               THEN current_args = <<>>
               ELSE \E p \in 1..def.current_line : CollectingFrom(p))
    /\ [][RunStepTaken
          => IF CurrentToken = ASTExprEnd /\ current_instruction # "None"
             THEN /\ Len(invoked') = Len(invoked) + 1
                  /\ invoked'[Len(invoked')].instruction = current_instruction
                  /\ invoked'[Len(invoked')].args = current_args
                  /\ pc' # "panic"
                        => current_instruction' = "None" /\ current_args' = <<>>
             ELSE invoked' = invoked]_vars

\* SET has just been invoked on a register and an integer, in this order
C14_Witness ==
    /\ pc = "run"
    /\ current_instruction = "None"
    /\ current_args = <<>>
    /\ invoked # <<>>
    /\ LET last == invoked[Len(invoked)]
       IN  /\ last.step = steps
           /\ last.instruction = "SET"
           /\ last.args = <<ValRegister(<<"r">>), ValInt(5)>>
           /\ token_stream[last.at + 1] = ASTExprEnd
           /\ token_stream[last.at - 2] = ASTInstruction(SET)

-----------------------------------------------------------------------------
(* raise_exception, as seen in the machine's output *)

\* what the step prints
NewOutput == SubSeq(def'.stdout, Len(def.stdout) + 1, Len(def'.stdout))

\* the error messages among the printed lines (scan's echo of a register name
\* is printed without raise_exception)
Raised(printed) == SelectSeq(printed, LAMBDA line : line.msg # "")

\* the one message that is raised with halt_execution = false
Warning == "Register reference encountered with no instruction present"

\* C15: every raise_exception adds exactly one to the error count, sets
\* halted when its flag is set and never clears it: in every step the error
\* count grows by the number of errors raised, halted becomes true exactly
\* when it was true or one of the errors raised halts, and so halted implies
\* an error count of at least one, and neither ever decreases.
C15_RaiseException ==
    /\ [](def.halted => def.errors >= 1)
    /\ [][/\ Len(def'.stdout) >= Len(def.stdout)
          /\ def'.errors = def.errors + Len(Raised(NewOutput))
          /\ def'.errors >= def.errors
          /\ def.halted => def'.halted
          /\ def'.halted = (def.halted
                            \/ \E k \in 1..Len(NewOutput) :
                                  NewOutput[k].msg \notin {"", Warning})]_vars

\* scan has raised an unknown-mnemonic error and an empty-argument error, both
\* halting, and both are counted
C15_Witness ==
    /\ def.errors >= 2
    /\ def.halted
    /\ PrintedWith("Empty argument!") # {}
    /\ PrintedWith("is an unknown instruction") # {}

-----------------------------------------------------------------------------
(* Register references inside a statement *)

Undeclared == "Register not defined in ASMDefinition"

\* the loop processes a register reference of a pending statement in this step
CollectsRegister ==
    /\ RunStepTaken
    /\ CurrentToken.node = "ASTRegister"
    /\ current_instruction # "None"

\* C16: every Register-kind value that run places in an argument list names a
\* register that is in the table when its reference is processed; a reference
\* to an undeclared register inside a statement records one error, sets
\* halted and adds no argument, and from then on no callback is invoked: the
\* pending instruction of that statement never is.
C16_DeclaredRegistersOnly ==
    /\ [](\A i \in 1..Len(current_args) :
             current_args[i].kind = "Register"
                => current_args[i].name \in DOMAIN def.registers)
    /\ [][CollectsRegister
          => IF CurrentToken.name \in DOMAIN def.registers
             THEN /\ current_args' = Append(current_args, ValRegister(CurrentToken.name))
                  /\ def'.errors = def.errors
                  /\ def'.halted = def.halted
             ELSE /\ current_args' = current_args
                  /\ current_instruction' = current_instruction
                  /\ def'.errors = def.errors + 1
                  /\ def'.halted
                  /\ NewOutput = <<Printed(Undeclared, NoName)>>
                  /\ invoked' = invoked]_vars
    /\ [][PrintedWith(Undeclared) # {} => invoked' = invoked]_vars

\* run has returned on an undeclared register of a statement whose terminator
\* is still ahead and whose instruction is still pending
C16_Witness ==
    /\ pc = "host"
    /\ def.halted
    /\ PrintedWith(Undeclared) # {}
    /\ current_instruction # "None"
    /\ in_range(def.current_line, token_stream)
    /\ CurrentToken.node = "ASTRegister"
    /\ CurrentToken.name \notin DOMAIN def.registers
    /\ \E k \in (def.current_line + 2)..Len(token_stream) : token_stream[k] = ASTExprEnd

-----------------------------------------------------------------------------
(* The scanner and the instruction table *)

\* the machine with no instruction, with the four callbacks, and with FOO too
InstructionTables ==
    { new, FullTable(new), insert_instruction(FullTable(new), FOO, "SET") }

\* C17: the tokens and the label table that scan produces do not depend on
\* the instruction table: when scan has returned, a scan of the same source by
\* a machine with no instruction, with the four callbacks or with every
\* mnemonic of the sources registered returns as well, with the same tokens
\* and the same labels; every statement's mnemonic is among the tokens, known
\* or not.
C17_TableIndependent ==
    FirstScanReturned
       => /\ \A m \in InstructionTables :
                LET r == scan(m, code)
                IN  /\ ~r.panic
                    /\ r.output = ast
                    /\ r.self.labels = def.labels
          /\ \A i \in StatementLines :
                ast[TokensBefore(SourceLines, i) + 1]
                   = ASTInstruction(Strip(Words(SourceLines[i])[1]))

\* a machine with no instruction has scanned two statements: both mnemonics
\* are unknown and both are among the tokens, which a machine with the four
\* callbacks returns too, without an error
C17_Witness ==
    /\ FirstScanReturned
    /\ HasNoInstructions
    /\ UnknownMnemonics(Len(SourceLines)) = {1, 2}
    /\ ast[1] = ASTInstruction(SET)
    /\ ast[TokensOf(SourceLines[1]) + 1] = ASTInstruction(JMP)
    /\ def.errors = 2
    /\ scan(FullTable(new), code).self.errors = 0
    /\ scan(FullTable(new), code).output = ast

-----------------------------------------------------------------------------
(* Scans that do not return *)

\* the machine's first scan has panicked
FirstScanPanicked == pc = "panic" /\ Len(scans) = 0 /\ steps = 0

\* the lines the first scan has gone through, the panicking one included, and
\* the tokens it has emitted
LinesEntered == IF pc \in {"scan", "panic"} THEN line_no - 1 ELSE Len(SourceLines)
TokensEmitted == IF pc \in {"scan", "panic"} THEN output ELSE ast

AllDigits(w) == Len(w) > 0 /\ \A k \in 1..Len(w) : w[k] \in Digits

DigitOf(d) == CHOOSE c \in Digits : DigitValue(c) = d

\* the decimal numeral of a natural number
RECURSIVE Numeral(_)
Numeral(n) ==
    IF n < 10 THEN <<DigitOf(n)>> ELSE Append(Numeral(n \div 10), DigitOf(n % 10))

\* a digit word without its leading zeros
RECURSIVE Canonical(_)
Canonical(w) == IF Len(w) > 1 /\ w[1] = "0" THEN Canonical(Tail(w)) ELSE w

\* C18 (as stated): every all-digit argument word is emitted by scan as
\* Value(Int(n)) with n its decimal value, for every digit string, those above
\* 2147483647 included.
C18_EveryDigitWord ==
    (InFirstScan \/ FirstScanPanicked)
       => \A ij \in ArgumentWords(LinesEntered) :
             AllDigits(ArgWord(ij))
                => LET at == TokensBefore(SourceLines, ij[1]) + ij[2]
                   IN  /\ at <= Len(TokensEmitted)
                       /\ TokensEmitted[at].node = "ASTValue"
                       /\ TokensEmitted[at].value.kind = "Int"
                       /\ TokensEmitted[at].value.int >= 0
                       /\ Numeral(TokensEmitted[at].value.int) = Canonical(ArgWord(ij))

-----------------------------------------------------------------------------
(* The shape of the token sequence *)

Pending == "ASTInstruction encountered when another instruction is called"

\* each mnemonic is followed by a terminator before the next mnemonic, and a
\* non-empty sequence ends with a terminator
Terminated(tokens) ==
    /\ \A p \in 1..Len(tokens) :
          tokens[p].node = "ASTInstruction"
             => \E q \in (p + 1)..Len(tokens) :
                   /\ tokens[q] = ASTExprEnd
                   /\ \A k \in (p + 1)..(q - 1) : tokens[k].node # "ASTInstruction"
    /\ tokens # <<>> => tokens[Len(tokens)] = ASTExprEnd

\* C19: in every token sequence that scan returns, each mnemonic is followed
\* by a terminator before the next mnemonic and a non-empty sequence ends with
\* a terminator; and whatever the source and the jumps of the callbacks, run
\* under interpret never meets a mnemonic while another instruction is pending:
\* the error for it is never raised.
C19_NoPendingInstruction ==
    /\ \A s \in 1..Len(scans) : Terminated(scans[s].ast)
    /\ pc \in {"scanned", "run"} => Terminated(ast)
    /\ PrintedWith(Pending) = {}
    /\ (pc = "run" /\ current_instruction # "None" /\ in_range(def.current_line, token_stream))
          => CurrentToken.node # "ASTInstruction"

\* an interpret has returned after a callback jumped into the middle of a
\* statement: the loop, idle after the jump, met an operand there
C19_Witness ==
    /\ pc = "host"
    /\ entry = "interpret"
    /\ \E i \in 1..Len(invoked) :
          /\ invoked[i].instruction = "JMPV"
          /\ invoked[i].landed # invoked[i].at
          /\ in_range(invoked[i].landed + 1, token_stream)
          /\ IsOperand(token_stream[invoked[i].landed + 2])
    /\ def.halted
    /\ PrintedWith(Pending) = {}

-----------------------------------------------------------------------------
(* The first word of a line *)

\* the first whitespace-delimited word of a line that is not blank
FirstWord(line) ==
    LET words == Words(line)
        first == CHOOSE k \in 1..Len(words) :
                    /\ Len(Strip(words[k])) > 0
                    /\ \A h \in 1..(k - 1) : Len(Strip(words[h])) = 0
    IN  Strip(words[first])

\* the line has been classified by its first word: as the declaration of a
\* label, which is in the table, or as a statement, whose mnemonic is among
\* the tokens
Classified(line) ==
    IF Last(FirstWord(line)) = ":"
    THEN SelectSeq(FirstWord(line), LAMBDA c : c # ":") \in DOMAIN def.labels
    ELSE \E p \in 1..Len(TokensEmitted) : TokensEmitted[p] = ASTInstruction(FirstWord(line))

\* C20 (as stated): for every line that is not empty after comment stripping
\* and trailing-whitespace removal, scan classifies the line by its first
\* whitespace-delimited word (a label if it ends with ':', a mnemonic
\* otherwise) and goes on normally, also when the line starts with spaces.
C20_FirstWordClassifies ==
    (InFirstScan \/ FirstScanPanicked)
       => \A i \in 1..LinesEntered :
             ~IsBlank(SourceLines[i])
                => Classified(SourceLines[i])

====
